---- MODULE Spec2Model ----
(***************************************************************************)
(* A model of the Medical Note Summarizer service (main.py).               *)
(*                                                                         *)
(* Text is modelled as a sequence of one-character strings, so that the    *)
(* string operations of the handlers (strip, split, substring search,      *)
(* lower) are computed as Python computes them.  Prompts, identifiers and  *)
(* file names are TLA+ strings, built by concatenation as the f-strings    *)
(* of the source build them.                                               *)
(*                                                                         *)
(* Four specifications are given:                                          *)
(*   Spec          the service: /health, /summarize and /feedback requests *)
(*                 sent one after the other, over a directory with one     *)
(*                 note, a clock and a model endpoint;                     *)
(*   SpecFiles     /health and /summarize requests over every directory    *)
(*                 of at most MaxFiles entries;                            *)
(*   SpecText      summarize_text as a pure function of its arguments and  *)
(*                 of the model endpoint's answer;                         *)
(*   SpecFeedback  /feedback handlers running concurrently, one statement  *)
(*                 of submit_feedback per step.                            *)
(***************************************************************************)
EXTENDS Integers, Sequences, FiniteSets, TLC

VARIABLES
    fs,                 \* the entries of the directory "notes", in glob's order
    now,                \* int(time.time()): the wall clock, in seconds
    feedbackDirExists,  \* whether <cwd>/feedback exists
    feedbackLog,        \* the lines of <cwd>/feedback/feedback.jsonl
    pc,                 \* position of the request being served by the service
    request,            \* the FileProcessRequest being served
    files,              \* create_summaries: files
    idx,                \* create_summaries: index of the next file of the loop
    summaries,          \* create_summaries: summaries
    reads,              \* paths opened by read_text_file during the request
    calls,              \* calls made to the model endpoint during the request
    response,           \* the last HTTP response sent
    issued,             \* the summary_id of every result /summarize has returned so far
    accepted,           \* every feedback_id /feedback has returned so far
    tpc,                \* SpecFeedback: each handler's position
    tlocal,             \* SpecFeedback: each handler's local variables
    input,              \* SpecText: arguments of summarize_text and the model's answer
    output              \* SpecText: what summarize_text returned or raised

vars == <<fs, now, feedbackDirExists, feedbackLog, pc, request, files, idx,
          summaries, reads, calls, response, issued, accepted, tpc, tlocal,
          input, output>>

serviceVars == <<fs, now, feedbackDirExists, feedbackLog, pc, request, files, idx,
                 summaries, reads, calls, response, issued, accepted>>

threadVars == <<tpc, tlocal>>

textVars == <<input, output>>

-----------------------------------------------------------------------------
(* Python values *)

None == [none |-> TRUE]

Some(v) == [none |-> FALSE, value |-> v]

\* a test for None alone, which lets the empty string through
NotNoneOnly(o) == ~o.none

\* Python truthiness of an Optional[str]: None and "" are false.
Truthy(o) == (~o.none) /\ (o.value # "")

\* no response has been sent yet
NoResponse == [endpoint |-> "", request |-> None, status_code |-> 0, body |-> [kind |-> "none"]]

-----------------------------------------------------------------------------
(* Characters and the str methods the handlers use *)

NL == "\n"

TAB == "\t"

Whitespace == {" ", NL, TAB}

UpperCase == <<"A","B","C","D","E","F","G","H","I","J","K","L","M",
               "N","O","P","Q","R","S","T","U","V","W","X","Y","Z">>

LowerCase == <<"a","b","c","d","e","f","g","h","i","j","k","l","m",
               "n","o","p","q","r","s","t","u","v","w","x","y","z">>

\* str.lower() on one character
LowerChar(c) ==
    IF \E k \in 1..Len(UpperCase) : UpperCase[k] = c
    THEN LowerCase[CHOOSE k \in 1..Len(UpperCase) : UpperCase[k] = c]
    ELSE c

\* str.lower()
Lower(s) == [k \in 1..Len(s) |-> LowerChar(s[k])]

\* str.strip(chars): drop the leading and trailing characters that are in chars
StripChars(s, chars) ==
    LET keep == {k \in 1..Len(s) : s[k] \notin chars}
    IN  IF keep = {} THEN <<>>
        ELSE LET first == CHOOSE k \in keep : \A m \in keep : k <= m
                 last  == CHOOSE k \in keep : \A m \in keep : k >= m
             IN  SubSeq(s, first, last)

\* str.strip()
Strip(s) == StripChars(s, Whitespace)

\* str.find(sub) + 1: the first position where sub occurs in s, 0 when it does not
Find(s, sub) ==
    LET hits == {k \in 1..(Len(s) - Len(sub) + 1) : SubSeq(s, k, k + Len(sub) - 1) = sub}
    IN  IF hits = {} THEN 0 ELSE CHOOSE k \in hits : \A m \in hits : k <= m

\* sub in s
Contains(s, sub) == Find(s, sub) # 0

RECURSIVE Split(_, _)
\* str.split(sep): the pieces between the occurrences of sep, taken left to right
Split(s, sep) ==
    LET k == Find(s, sep)
    IN  IF k = 0 THEN <<s>>
        ELSE <<SubSeq(s, 1, k - 1)>> \o Split(SubSeq(s, k + Len(sep), Len(s)), sep)

RECURSIVE SplitWords(_)
\* str.split(): the maximal runs of non-whitespace characters
SplitWords(s) ==
    LET t == Strip(s)
        ws == {k \in 1..Len(t) : t[k] \in Whitespace}
    IN  IF t = <<>> THEN <<>>
        ELSE IF ws = {} THEN <<t>>
        ELSE LET k == CHOOSE k \in ws : \A m \in ws : k <= m
             IN  <<SubSeq(t, 1, k - 1)>> \o SplitWords(SubSeq(t, k + 1, Len(t)))

\* seq[:n]
Take(seq, n) == SubSeq(seq, 1, IF Len(seq) < n THEN Len(seq) ELSE n)

\* [p.strip() for p in seq]
StripAll(seq) == [k \in 1..Len(seq) |-> Strip(seq[k])]

NonEmptyStripped(p) == Strip(p) # <<>>

\* a threshold off by one
FiveOrMore(word) == Len(word) >= 5

\* len(word) > 5
IsKeyTerm(word) == Len(word) > 5

-----------------------------------------------------------------------------
(* create_simple_source_mapping *)

source_paragraphs(source_text) ==
    StripAll(SelectSeq(Split(source_text, <<NL>>), NonEmptyStripped))

summary_sentences(summary) ==
    StripAll(SelectSeq(Split(summary, <<".">>), NonEmptyStripped))

key_terms(sentence) == Take(SelectSeq(SplitWords(sentence), IsKeyTerm), 3)

\* any(term.lower() in paragraph.lower() for term in key_terms)
TermMatches(terms, paragraph) ==
    \E k \in 1..Len(terms) : Contains(Lower(paragraph), Lower(terms[k]))

\* the list matched_paragraphs the inner loop builds: 0-based indices, in loop order
matched_paragraphs(sentence, paragraphs) ==
    LET terms == key_terms(sentence)
        Hit(j) == TermMatches(terms, paragraphs[j + 1])
    IN  SelectSeq([j \in 1..Len(paragraphs) |-> j - 1], Hit)

\* f"sentence_{i}"
SentenceKey(i) == "sentence_" \o ToString(i)

create_simple_source_mapping(source_text, summary) ==
    LET paragraphs == source_paragraphs(source_text)
        sentences  == summary_sentences(summary)
        mapped     == {i \in 0..(Len(sentences) - 1) :
                         matched_paragraphs(sentences[i + 1], paragraphs) # <<>>}
    IN  [key \in {SentenceKey(i) : i \in mapped} |->
            LET i == CHOOSE i \in mapped : SentenceKey(i) = key
            IN  matched_paragraphs(sentences[i + 1], paragraphs)]

-----------------------------------------------------------------------------
(* summarize_text *)

BaseMessage ==
    "You are a medical summarization assistant. Provide a concise summary of the following medical text."

RoleClause(role) == " Format it for a " \o role \o "."

FormatClause(format) == " Use a " \o format \o " format."

CriticalClause ==
    " Identify and list any critical findings separately at the end of the summary."

system_message(role, format, highlight_critical) ==
    LET m0 == BaseMessage
        m1 == IF Truthy(role) THEN m0 \o RoleClause(role.value) ELSE m0
        m2 == IF Truthy(format) THEN m1 \o FormatClause(format.value) ELSE m1
    IN  IF highlight_critical THEN m2 \o CriticalClause ELSE m2

\* the arguments of openai.ChatCompletion.create
ChatCompletionCall(text, role, format, highlight_critical) ==
    [model    |-> "gpt-4o",
     messages |-> << [role    |-> "system",
                      content |-> system_message(role, format, highlight_critical)],
                     [role |-> "user", content |-> text] >>]

CriticalFindings == <<"C","r","i","t","i","c","a","l"," ","F","i","n","d","i","n","g","s">>

\* f.strip().strip("**").strip(":")
FindingOf(f) == StripChars(StripChars(Strip(f), {"*"}), {":"})

\* parts = summary.split("Critical Findings")
FindingsParts(summary) == Split(summary, CriticalFindings)

\* the test of the if statement that splits the findings off
HasFindings(summary, highlight_critical) ==
    highlight_critical /\ Contains(summary, CriticalFindings)

\* the list comprehension over parts[1]
critical_findings_of(parts) ==
    LET kept == SelectSeq(Split(Strip(parts[2]), <<NL>>), NonEmptyStripped)
    IN  [k \in 1..Len(kept) |-> FindingOf(kept[k])]

\* An answer of the model endpoint is [error |-> TRUE] (the call raised) or
\* [error |-> FALSE, content, usage].  start_time and end_time are the clock
\* before and after the call.
summarize_text(text, role, format, highlight_critical, answer, start_time, end_time) ==
    IF answer.error
    THEN [raised |-> TRUE, status_code |-> 500]
    ELSE LET whole   == Strip(answer.content)
             found   == HasFindings(whole, highlight_critical)
             parts   == FindingsParts(whole)
             summary == IF found THEN Strip(parts[1]) ELSE whole
         IN  [raised |-> FALSE,
              value  |->
                [summary_id        |-> "sum_" \o ToString(end_time),
                 summary           |-> summary,
                 metadata          |->
                    [model               |-> "gpt-4o",
                     role                |-> role,
                     format              |-> format,
                     processing_time_sec |-> end_time - start_time,
                     tokens              |-> answer.usage,
                     timestamp           |-> end_time],
                 critical_findings |-> IF found THEN Some(critical_findings_of(parts))
                                                ELSE None,
                 source_mappings   |-> create_simple_source_mapping(text, summary)]]

-----------------------------------------------------------------------------
(* Inputs of SpecText *)

MaxSplitPieces == 3

MaxMapPieces == 4

RECURSIVE Concat(_)
Concat(pieces) == IF pieces = <<>> THEN <<>> ELSE Head(pieces) \o Concat(Tail(pieces))

\* every concatenation of at most n pieces
Texts(pieces, n) == {Concat(ps) : ps \in UNION {[1..k -> pieces] : k \in 0..n}}

SplitPieces == {CriticalFindings, <<NL>>, <<"A">>, <<"*","*">>, <<":">>, <<" ">>}

WordPatient == <<"P","a","t","i","e","n","t"," ">>

WordUnknown == <<"U","n","k","n","o","w","n"," ">>

WordFever == <<"f","e","v","e","r"," ">>

MapPieces == {WordPatient, WordUnknown, WordFever, <<".">>, CriticalFindings}

SourceA == <<"p","a","t","i","e","n","t"," ","s","t","a","b","l","e",NL,NL,
             "h","i","g","h"," ","f","e","v","e","r">>

SourceB == <<"F","e","v","e","r",NL," ",NL,"O","U","T","P","A","T","I","E","N","T",NL,
             "p","a","t","i","e","n","t">>

SourceC == <<"n","o"," ","f","i","n","d","i","n","g","s">>

Sources == {SourceA, SourceB, SourceC}

\* the answer the repository's test mocks
TestContent == <<"T","e","s","t"," ","s","u","m","m","a","r","y","."," ",
                 "C","r","i","t","i","c","a","l"," ","F","i","n","d","i","n","g","s"," ",
                 "F","i","n","d","i","n","g"," ","1">>

TestUsage == [prompt_tokens |-> 100, completion_tokens |-> 50, total_tokens |-> 150]

Answer(content) == [error |-> FALSE, content |-> content, usage |-> TestUsage]

CallFailed == [error |-> TRUE]

Roles == {None, Some(""), Some("physician")}

Formats == {None, Some(""), Some("brief")}

SplitInputs ==
    [text : {SourceA}, role : {None}, format : {None}, highlight_critical : BOOLEAN,
     answer : {Answer(c) : c \in Texts(SplitPieces, MaxSplitPieces)}]

MapInputs ==
    [text : Sources, role : {None}, format : {None}, highlight_critical : BOOLEAN,
     answer : {Answer(c) : c \in Texts(MapPieces, MaxMapPieces)}]

PromptInputs ==
    [text : {SourceA}, role : Roles, format : Formats, highlight_critical : BOOLEAN,
     answer : {Answer(TestContent), CallFailed}]

TextInputs == SplitInputs \cup MapInputs \cup PromptInputs

-----------------------------------------------------------------------------
(* SpecText: summarize_text applied to one input *)

NotCalled == [called |-> FALSE]

IdleService ==
    /\ fs = <<>>
    /\ now = 0
    /\ feedbackDirExists = FALSE
    /\ feedbackLog = <<>>
    /\ pc = "idle"
    /\ request = None
    /\ files = <<>>
    /\ idx = 0
    /\ summaries = <<>>
    /\ reads = <<>>
    /\ calls = <<>>
    /\ response = NoResponse
    /\ issued = <<>>
    /\ accepted = <<>>

IdleThreads ==
    /\ tpc = <<>>
    /\ tlocal = <<>>

IdleText ==
    /\ input = None
    /\ output = NotCalled

InitText ==
    /\ IdleService
    /\ IdleThreads
    /\ input \in TextInputs
    /\ output = NotCalled

SummarizeText ==
    /\ ~output.called
    /\ output' = [called |-> TRUE,
                  call   |-> ChatCompletionCall(input.text, input.role, input.format,
                                                input.highlight_critical),
                  ret    |-> summarize_text(input.text, input.role, input.format,
                                            input.highlight_critical, input.answer, 0, 0)]
    /\ UNCHANGED <<input, serviceVars, threadVars>>

NextText == SummarizeText

SpecText == InitText /\ [][NextText]_vars

-----------------------------------------------------------------------------
(* The file system, the clock and the requests of Spec *)

MaxFiles == 2

MaxTime == 1

MaxLog == 2

MaxIssued == 2

MinLength == 10

TextNine == <<" ","n","o"," ","f","e","v","e","r","s",NL>>

TextTen == <<"p","a","t","i","e","n","t"," ","o","k",NL>>

\* what a directory entry can be: a note too short to summarize, a note of
\* exactly MinLength characters once stripped, a *.txt entry that cannot be
\* read, and a file glob does not match
EntryKinds ==
    { [ext |-> ".txt", content |-> TextNine, readable |-> TRUE],
      [ext |-> ".txt", content |-> TextTen,  readable |-> TRUE],
      [ext |-> ".txt", content |-> <<>>,     readable |-> FALSE],
      [ext |-> ".md",  content |-> TextTen,  readable |-> TRUE] }

Entry(kind, k) ==
    [stem |-> "note" \o ToString(k), ext |-> kind.ext,
     content |-> kind.content, readable |-> kind.readable]

Directories ==
    {[k \in 1..Len(kinds) |-> Entry(kinds[k], k)] :
        kinds \in UNION {[1..m -> EntryKinds] : m \in 0..MaxFiles}}

FileProcessRequests ==
    [directory : {"notes", "nonexistent_directory"},
     role : {Some("physician")}, format : {Some("brief")},
     highlight_critical : BOOLEAN]

FeedbackRequests ==
    { [summary_id |-> "test_id_123", rating |-> 5, comments |-> Some("Good summary")],
      [summary_id |-> "sum_0", rating |-> 1, comments |-> None],
      [summary_id |-> "sum_0", rating |-> 0, comments |-> None],
      [summary_id |-> "test_id_123", rating |-> 6, comments |-> Some("Good summary")] }

ServiceAnswers == {CallFailed, Answer(TestContent)}

-----------------------------------------------------------------------------
(* read_text_file, get_text_files *)

\* os.path.join(directory, name)
PathJoin(directory, name) == <<directory, name>>

\* os.path.basename(path)
Basename(path) == path[Len(path)]

FileName(entry) == entry.stem \o entry.ext

\* os.path.exists(directory): "notes" is the one directory there is
DirectoryExists(directory) == directory = "notes"

IsTxt(entry) == entry.ext = ".txt"

\* glob.glob(os.path.join(directory, "*.txt"))
Glob(directory, listing) ==
    LET hits == SelectSeq(listing, IsTxt)
    IN  [k \in 1..Len(hits) |-> PathJoin(directory, FileName(hits[k]))]

\* the glob result returned as it is, without the two checks
GlobUnchecked(directory, listing) == [raised |-> FALSE, value |-> Glob(directory, listing)]

get_text_files(directory, listing) ==
    IF ~DirectoryExists(directory) THEN [raised |-> TRUE]
    ELSE LET found == Glob(directory, listing)
         IN  IF found = <<>> THEN [raised |-> TRUE]
                             ELSE [raised |-> FALSE, value |-> found]

EntryAt(path, listing) ==
    CHOOSE e \in {listing[k] : k \in 1..Len(listing)} : FileName(e) = Basename(path)

read_text_file(path, listing) ==
    LET e == EntryAt(path, listing)
    IN  IF e.readable THEN [raised |-> FALSE, value |-> Strip(e.content)]
                      ELSE [raised |-> TRUE]

\* a threshold off by one
AtMostMinLength(text) == Len(text) <= MinLength

\* len(text) < 10
TooShort(text) == Len(text) < MinLength

-----------------------------------------------------------------------------
(* HTTP responses *)

Response(endpoint, req, status_code, body) ==
    [endpoint |-> endpoint, request |-> req, status_code |-> status_code, body |-> body]

ListBody(items) == [kind |-> "list", items |-> items]

ErrorBody == [kind |-> "detail"]

HealthBody(t) == [kind |-> "health", status |-> "ok", timestamp |-> t]

FeedbackBody(t) ==
    [kind |-> "feedback", status |-> "feedback received",
     feedback_id |-> "fb_" \o ToString(t)]

-----------------------------------------------------------------------------
(* Spec: one client sending /health, /summarize and /feedback requests *)

\* the service starts with the notes directory as it is and no feedback yet
InitService(directories) ==
    /\ fs \in directories
    /\ now = 0
    /\ feedbackDirExists = FALSE
    /\ feedbackLog = <<>>
    /\ pc = "idle"
    /\ request = None
    /\ files = <<>>
    /\ idx = 0
    /\ summaries = <<>>
    /\ reads = <<>>
    /\ calls = <<>>
    /\ response = NoResponse
    /\ issued = <<>>
    /\ accepted = <<>>
    /\ IdleThreads
    /\ IdleText

\* a directory with one note long enough to summarize
OneNote == <<Entry([ext |-> ".txt", content |-> TextTen, readable |-> TRUE], 1)>>

Init == InitService({OneNote})

InitFiles == InitService(Directories)

\* time passes
Tick ==
    /\ now < MaxTime
    /\ now' = now + 1
    /\ UNCHANGED <<fs, feedbackDirExists, feedbackLog, pc, request, files, idx,
                   summaries, reads, calls, response, issued, accepted,
                   threadVars, textVars>>

\* the footprint of the previous /summarize request is dropped when the next
\* request arrives
ForgetRequest ==
    /\ request' = None
    /\ files' = <<>>
    /\ idx' = 0
    /\ summaries' = <<>>
    /\ reads' = <<>>
    /\ calls' = <<>>

health_check ==
    /\ pc = "idle"
    /\ response' = Response("/health", None, 200, HealthBody(now))
    /\ ForgetRequest
    /\ UNCHANGED <<fs, now, feedbackDirExists, feedbackLog, pc, issued, accepted,
                   threadVars, textVars>>

\* create_summaries up to the loop: get_text_files, summaries = []
SummarizeBegin(req) ==
    /\ pc = "idle"
    /\ Len(issued) < MaxIssued
    /\ LET got == get_text_files(req.directory, fs)
       IN  /\ request' = Some(req)
           /\ idx' = 1
           /\ summaries' = <<>>
           /\ reads' = <<>>
           /\ calls' = <<>>
           /\ IF got.raised
              THEN /\ files' = <<>>
                   /\ pc' = "idle"
                   /\ response' = Response("/summarize", req, 500, ErrorBody)
              ELSE /\ files' = got.value
                   /\ pc' = "loop"
                   /\ UNCHANGED response
    /\ UNCHANGED <<fs, now, feedbackDirExists, feedbackLog, issued, accepted,
                   threadVars, textVars>>

\* result['file_name'] = os.path.basename(file_path)
WithFileName(result, path) == result @@ [file_name |-> Basename(path)]

\* the failing file is skipped and the loop goes on
SkipFailedFile ==
    /\ idx' = idx + 1
    /\ UNCHANGED <<summaries, pc, response>>

\* an exception in the loop: caught by the handler, which raises HTTPException(500)
Fail500 ==
    /\ pc' = "idle"
    /\ response' = Response("/summarize", request.value, 500, ErrorBody)
    /\ UNCHANGED <<summaries, idx>>

\* one iteration of the loop of create_summaries, the model's answer taking
\* `elapsed` seconds to arrive
SummarizeFile(answer, elapsed) ==
    /\ pc = "loop"
    /\ idx <= Len(files)
    /\ LET path == files[idx]
           req  == request.value
           read == read_text_file(path, fs)
       IN  /\ reads' = Append(reads, path)
           /\ IF read.raised
              THEN /\ Fail500
                   /\ UNCHANGED <<calls, now>>
              ELSE IF TooShort(read.value)
              THEN /\ idx' = idx + 1
                   /\ UNCHANGED <<calls, now, summaries, pc, response>>
              ELSE /\ now + elapsed <= MaxTime
                   /\ now' = now + elapsed
                   /\ calls' = Append(calls,
                                 [path   |-> path,
                                  call   |-> ChatCompletionCall(read.value, req.role,
                                                req.format, req.highlight_critical),
                                  answer |-> answer])
                   /\ LET ret == summarize_text(read.value, req.role, req.format,
                                                req.highlight_critical, answer,
                                                now, now + elapsed)
                      IN  IF ret.raised
                          THEN Fail500
                          ELSE /\ summaries' = Append(summaries,
                                                      WithFileName(ret.value, path))
                               /\ idx' = idx + 1
                               /\ UNCHANGED <<pc, response>>
    /\ UNCHANGED <<fs, feedbackDirExists, feedbackLog, request, files, issued,
                   accepted, threadVars, textVars>>

\* return summaries
SummarizeReturn ==
    /\ pc = "loop"
    /\ idx > Len(files)
    /\ pc' = "idle"
    /\ response' = Response("/summarize", request.value, 200, ListBody(summaries))
    /\ issued' = issued \o [k \in 1..Len(summaries) |-> summaries[k].summary_id]
    /\ UNCHANGED <<fs, now, feedbackDirExists, feedbackLog, request, files, idx,
                   summaries, reads, calls, accepted, threadVars, textVars>>

\* the lower limit alone
AtLeastOne(req) == req.rating >= 1

\* FeedbackRequest: rating: int = Field(..., ge=1, le=5)
ValidFeedback(req) == req.rating >= 1 /\ req.rating <= 5

\* feedback_data
FeedbackData(req, t) ==
    [summary_id |-> req.summary_id, rating |-> req.rating,
     comments |-> req.comments, timestamp |-> t]

\* the file opened with "w": the line replaces the content
OverwriteLine(log, data) == <<data>>

\* with open(feedback_file, "a") as f: f.write(json.dumps(feedback_data) + "\n")
AppendLine(log, data) == Append(log, data)

\* POST /feedback: validation of the body, then submit_feedback
submit_feedback(req) ==
    /\ pc = "idle"
    /\ Len(feedbackLog) < MaxLog
    /\ ForgetRequest
    /\ IF ValidFeedback(req)
       THEN /\ feedbackDirExists' = TRUE
            /\ feedbackLog' = AppendLine(feedbackLog, FeedbackData(req, now))
            /\ response' = Response("/feedback", req, 200, FeedbackBody(now))
            /\ accepted' = Append(accepted, FeedbackBody(now).feedback_id)
       ELSE /\ response' = Response("/feedback", req, 422, ErrorBody)
            /\ UNCHANGED <<feedbackDirExists, feedbackLog, accepted>>
    /\ UNCHANGED <<fs, now, pc, issued, threadVars, textVars>>

Next ==
    \/ Tick
    \/ health_check
    \/ \E req \in FileProcessRequests : SummarizeBegin(req)
    \/ \E answer \in ServiceAnswers, elapsed \in 0..1 : SummarizeFile(answer, elapsed)
    \/ SummarizeReturn
    \/ \E req \in FeedbackRequests : submit_feedback(req)

Spec == Init /\ [][Next]_vars

\* SpecFiles: /health and /summarize requests over every directory
NextFiles ==
    \/ Tick
    \/ health_check
    \/ \E req \in FileProcessRequests : SummarizeBegin(req)
    \/ \E answer \in ServiceAnswers, elapsed \in 0..1 : SummarizeFile(answer, elapsed)
    \/ SummarizeReturn

SpecFiles == InitFiles /\ [][NextFiles]_vars

-----------------------------------------------------------------------------
(* SpecFeedback: submit_feedback run by concurrent handlers *)

NumHandlers == 2

Handlers == 1..NumHandlers

NoLocal == [req |-> None, data |-> None, response |-> None]

InitFeedback ==
    /\ IdleService
    /\ IdleText
    /\ tpc = [t \in Handlers |-> "idle"]
    /\ tlocal = [t \in Handlers |-> NoLocal]

\* a POST /feedback arrives: the body is validated, feedback_data is built
Receive(t, req) ==
    /\ tpc[t] = "idle"
    /\ IF ValidFeedback(req)
       THEN /\ tpc' = [tpc EXCEPT ![t] = "exists"]
            /\ tlocal' = [tlocal EXCEPT ![t] = [req |-> Some(req),
                                                data |-> Some(FeedbackData(req, now)),
                                                response |-> None]]
       ELSE /\ tpc' = [tpc EXCEPT ![t] = "done"]
            /\ tlocal' = [tlocal EXCEPT ![t] =
                            [req |-> Some(req), data |-> None,
                             response |-> Some(Response("/feedback", req, 422, ErrorBody))]]
    /\ UNCHANGED <<serviceVars, textVars>>

\* if not os.path.exists(f"{working_dir}/feedback"):
CheckExists(t) ==
    /\ tpc[t] = "exists"
    /\ tpc' = [tpc EXCEPT ![t] = IF feedbackDirExists THEN "write" ELSE "makedirs"]
    /\ UNCHANGED <<tlocal, serviceVars, textVars>>

\* os.makedirs(f"{working_dir}/feedback"): raises FileExistsError when the
\* directory is there, and the request ends with status 500
MakeDirs(t) ==
    /\ tpc[t] = "makedirs"
    /\ IF feedbackDirExists
       THEN /\ tpc' = [tpc EXCEPT ![t] = "done"]
            /\ tlocal' = [tlocal EXCEPT ![t].response =
                            Some(Response("/feedback", tlocal[t].req.value, 500, ErrorBody))]
            /\ UNCHANGED feedbackDirExists
       ELSE /\ tpc' = [tpc EXCEPT ![t] = "write"]
            /\ feedbackDirExists' = TRUE
            /\ UNCHANGED tlocal
    /\ UNCHANGED <<fs, now, feedbackLog, pc, request, files, idx, summaries, reads,
                   calls, response, issued, accepted, textVars>>

\* with open(feedback_file, "a") as f: f.write(json.dumps(feedback_data) + "\n")
WriteLine(t) ==
    /\ tpc[t] = "write"
    /\ feedbackDirExists
    /\ feedbackLog' = AppendLine(feedbackLog, tlocal[t].data.value)
    /\ tpc' = [tpc EXCEPT ![t] = "return"]
    /\ UNCHANGED <<tlocal, fs, now, feedbackDirExists, pc, request, files, idx,
                   summaries, reads, calls, response, issued, accepted, textVars>>

\* return {"status": "feedback received", "feedback_id": f"fb_{int(time.time())}"}
Return(t) ==
    /\ tpc[t] = "return"
    /\ tpc' = [tpc EXCEPT ![t] = "done"]
    /\ tlocal' = [tlocal EXCEPT ![t].response =
                    Some(Response("/feedback", tlocal[t].req.value, 200, FeedbackBody(now)))]
    /\ accepted' = Append(accepted, FeedbackBody(now).feedback_id)
    /\ UNCHANGED <<fs, now, feedbackDirExists, feedbackLog, pc, request, files, idx,
                   summaries, reads, calls, response, issued, textVars>>

NextFeedback ==
    \/ Tick
    \/ \E t \in Handlers, req \in FeedbackRequests : Receive(t, req)
    \/ \E t \in Handlers : CheckExists(t)
    \/ \E t \in Handlers : MakeDirs(t)
    \/ \E t \in Handlers : WriteLine(t)
    \/ \E t \in Handlers : Return(t)

SpecFeedback == InitFeedback /\ [][NextFeedback]_vars

-----------------------------------------------------------------------------
(* Properties of /summarize, checked under SpecFiles *)

\* a /summarize request has been answered and nothing has arrived since:
\* files, reads, calls and summaries are those of that request
Answered == pc = "idle" /\ response.endpoint = "/summarize"

Succeeded == Answered /\ response.status_code = 200

TxtEntries == SelectSeq(fs, IsTxt)

LongEnough(entry) == Len(Strip(entry.content)) >= MinLength

\* C1 (as claimed): a successful /summarize returns one result for every *.txt
\* file of the directory, in enumeration order, the i-th result's file_name
\* being the base name of the i-th file.
C1_OneResultPerFile ==
    Succeeded =>
        /\ Len(response.body.items) = Len(TxtEntries)
        /\ \A i \in 1..Len(response.body.items) :
             i <= Len(TxtEntries) =>
                response.body.items[i].file_name = FileName(TxtEntries[i])

\* C1 (amended): a successful /summarize returns one result for every *.txt
\* file of the directory whose trimmed content has at least 10 characters, in
\* enumeration order, the i-th result's file_name being the base name of the
\* i-th such file.
C1_OneResultPerLongFile ==
    Succeeded =>
        LET kept == SelectSeq(TxtEntries, LongEnough)
        IN  /\ Len(response.body.items) = Len(kept)
            /\ \A i \in 1..Len(kept) :
                 response.body.items[i].file_name = FileName(kept[i])

\* C1 witness: a successful response with a result, one file having been skipped
C1_Witness ==
    /\ Succeeded
    /\ Len(response.body.items) >= 1
    /\ Len(response.body.items) < Len(TxtEntries)
    /\ response.body.items[1].file_name = "note2.txt"

NoInputFiles(req) == req.directory # "notes" \/ TxtEntries = <<>>

\* C5: a /summarize request on a directory that does not exist, or that has no
\* *.txt file, is answered with status 500 and no result list, and the model
\* endpoint is never called for it.
C5_NoFilesIs500 ==
    (request # None /\ NoInputFiles(request.value)) =>
        /\ Answered
        /\ response.request = request.value
        /\ response.status_code = 500
        /\ response.body.kind # "list"
        /\ calls = <<>>

\* C5 witness: the directory exists, has a file, but none that glob matches
C5_Witness ==
    /\ request # None
    /\ request.value.directory = "notes"
    /\ fs # <<>>
    /\ TxtEntries = <<>>
    /\ response.status_code = 500

CallsFor(path) == {k \in 1..Len(calls) : calls[k].path = path}

\* the read of the k-th file or the model call made for it failed
FailedAt(k) ==
    \/ ~EntryAt(files[k], fs).readable
    \/ \E c \in CallsFor(files[k]) : calls[c].answer.error

\* C6: no retry, fail fast.  The files are read once each, in order; the model
\* is called exactly once for a file read whose trimmed content has at least
\* 10 characters and never for a shorter one, which does not fail the request;
\* once the read or the call for the k-th file fails, no later file is read
\* or sent and the request is answered 500 without any result.
C6_FailFast ==
    LET n == Len(reads)
    IN  /\ n <= Len(files)
        /\ reads = SubSeq(files, 1, n)
        /\ \A k \in 1..n :
             LET e == EntryAt(files[k], fs)
             IN  /\ Cardinality(CallsFor(files[k])) =
                        (IF e.readable /\ LongEnough(e) THEN 1 ELSE 0)
                 /\ FailedAt(k) =>
                        /\ k = n
                        /\ Answered
                        /\ response.status_code = 500
                        /\ response.body.kind # "list"
        /\ (Answered /\ response.status_code = 500 /\ files # <<>>) =>
                (n >= 1 /\ FailedAt(n))
        /\ pc = "loop" => n = idx - 1

\* C6 witness: the model call for the first of two files failed after a
\* result was not yet there, and the second file was never read
C6_Witness ==
    /\ Answered
    /\ response.status_code = 500
    /\ Len(files) = 2
    /\ Len(reads) = 1
    /\ Len(calls) = 1
    /\ calls[1].answer.error

Distinct(seq) == \A i, j \in 1..Len(seq) : i # j => seq[i] # seq[j]

\* C10 (as claimed): no two results /summarize has returned share a summary_id
\* and no two successful /feedback requests share a feedback_id.
C10_IdsIdentify == Distinct(issued) /\ Distinct(accepted)

-----------------------------------------------------------------------------
(* Properties of /feedback, checked under Spec and SpecFeedback *)

IsPrefix(a, b) == Len(a) <= Len(b) /\ a = SubSeq(b, 1, Len(a))

\* C3: the feedback log is append-only.  A step in which /feedback answers
\* "feedback received" extends the log by exactly one line, carrying the
\* request's summary_id, rating and comments and the time of the request; every
\* other step of any endpoint leaves the log as it is.
C3_AppendOnly ==
    [][ /\ IsPrefix(feedbackLog, feedbackLog')
        /\ IF accepted' # accepted
           THEN /\ response'.endpoint = "/feedback"
                /\ response'.status_code = 200
                /\ response'.body.status = "feedback received"
                /\ feedbackLog' = Append(feedbackLog,
                      [summary_id |-> response'.request.summary_id,
                       rating     |-> response'.request.rating,
                       comments   |-> response'.request.comments,
                       timestamp  |-> now])
           ELSE feedbackLog' = feedbackLog ]_vars

\* C3 witness: a second line has been appended after a /summarize was answered
C3_Witness ==
    /\ Len(feedbackLog) = 2
    /\ feedbackLog[1] # feedbackLog[2]
    /\ issued # <<>>
    /\ response.endpoint = "/feedback"
    /\ response.status_code = 200

RatingInRange(r) == r \in 1..5

\* C4: every record of the feedback log has a rating from 1 to 5; a /feedback
\* request with a rating below 1 or above 5 is answered with an error and no
\* feedback_id, and the log is left unchanged.
C4_RatingsInRange ==
    /\ [](/\ \A k \in 1..Len(feedbackLog) : RatingInRange(feedbackLog[k].rating)
          /\ (response.endpoint = "/feedback" /\ ~RatingInRange(response.request.rating)) =>
                /\ response.status_code >= 400
                /\ response.body.kind # "feedback")
    /\ [][ (response'.endpoint = "/feedback" /\ ~RatingInRange(response'.request.rating)) =>
                (feedbackLog' = feedbackLog /\ accepted' = accepted) ]_vars

\* C4 witness: a rating of 6 was refused while the log already had a line
C4_Witness ==
    /\ response.endpoint = "/feedback"
    /\ response.request.rating = 6
    /\ response.status_code = 422
    /\ Len(feedbackLog) = 1

Done(t) == tpc[t] = "done"

\* C9 (as claimed): under any interleaving, every /feedback request that
\* passes validation is answered "feedback received" and its record is in the
\* log exactly once.
C9_NoFeedbackLost ==
    \A t \in DOMAIN tpc :
        (Done(t) /\ ValidFeedback(tlocal[t].req.value)) =>
            /\ tlocal[t].response.value.status_code = 200
            /\ tlocal[t].response.value.body.kind = "feedback"
            /\ Cardinality({k \in 1..Len(feedbackLog) : feedbackLog[k] = tlocal[t].data.value})
                 = Cardinality({u \in DOMAIN tpc :
                                  /\ Done(u)
                                  /\ tlocal[u].data = tlocal[t].data})

-----------------------------------------------------------------------------
(* Properties of summarize_text, checked under SpecText *)

Returned == output.called /\ ~output.ret.raised

Result == output.ret.value

NonEmptyLines(text) == SelectSeq(Split(text, <<NL>>), NonEmptyStripped)

\* C2 (as claimed): with highlight_critical set and "Critical Findings" in the
\* trimmed answer, the summary is the trimmed text before the first occurrence
\* and critical_findings has one stripped entry for every non-empty line of
\* all the text after that first occurrence; otherwise critical_findings is
\* None and the summary is the whole trimmed answer.
C2_NothingLost ==
    Returned =>
        LET whole == Strip(input.answer.content)
            k     == Find(whole, CriticalFindings)
            rest  == SubSeq(whole, k + Len(CriticalFindings), Len(whole))
        IN  IF input.highlight_critical /\ k # 0
            THEN /\ Result.summary = Strip(SubSeq(whole, 1, k - 1))
                 /\ Result.critical_findings =
                        Some([n \in 1..Len(NonEmptyLines(rest)) |->
                                FindingOf(NonEmptyLines(rest)[n])])
            ELSE /\ Result.summary = whole
                 /\ Result.critical_findings = None

\* C7: the system prompt is the base sentence, then the role clause iff role is
\* a non-empty string, then the format clause iff format is a non-empty string,
\* then the critical-findings clause iff highlight_critical; the model is
\* called with exactly that system message and then the text as the user
\* message; role and format are echoed unchanged in the result's metadata.
C7_PromptAndEcho ==
    output.called =>
        LET hasRole   == input.role # None /\ input.role # Some("")
            hasFormat == input.format # None /\ input.format # Some("")
            expected  ==
                BaseMessage
                \o (IF hasRole THEN " Format it for a " \o input.role.value \o "." ELSE "")
                \o (IF hasFormat THEN " Use a " \o input.format.value \o " format." ELSE "")
                \o (IF input.highlight_critical THEN CriticalClause ELSE "")
        IN  /\ Len(output.call.messages) = 2
            /\ output.call.messages[1] = [role |-> "system", content |-> expected]
            /\ output.call.messages[2] = [role |-> "user", content |-> input.text]
            /\ Returned => /\ Result.metadata.role = input.role
                           /\ Result.metadata.format = input.format

\* C7 witness: a call with an empty role, a non-empty format and the flag set
C7_Witness ==
    /\ Returned
    /\ input.role = Some("")
    /\ input.format = Some("brief")
    /\ input.highlight_critical

\* the words of a sentence that are longer than 5 characters, the first three of them
FirstLongWords(sentence) ==
    LET w     == SplitWords(sentence)
        long  == {k \in 1..Len(w) : Len(w[k]) > 5}
        first == {k \in long : Cardinality({m \in long : m < k}) < 3}
    IN  {w[k] : k \in first}

\* the 0-based indices of the non-empty source lines in which a word occurs,
\* case-insensitively, as a substring
MatchingLines(words, lines) ==
    {j \in 0..(Len(lines) - 1) :
        \E word \in words : Contains(Lower(lines[j + 1]), Lower(word))}

\* C8: the mapping returned for the source text and the summary left after the
\* findings were split off has the key "sentence_i" iff the i-th non-empty
\* '.'-separated sentence has a matching line; its value lists, strictly
\* increasing, exactly the indices of the non-empty source lines that contain
\* one of the sentence's first three words longer than 5 characters; no value
\* is empty and a sentence without such a word has no key.
C8_SourceMapping ==
    Returned =>
        LET m         == Result.source_mappings
            sentences == SelectSeq(Split(Result.summary, <<".">>), NonEmptyStripped)
            lines     == NonEmptyLines(input.text)
            Match(i)  == MatchingLines(FirstLongWords(sentences[i + 1]), lines)
            indices   == 0..(Len(sentences) - 1)
        IN  /\ DOMAIN m = {SentenceKey(i) : i \in {n \in indices : Match(n) # {}}}
            /\ \A i \in indices :
                 /\ Match(i) # {} =>
                      LET v == m[SentenceKey(i)]
                      IN  /\ \A a, b \in 1..Len(v) : a < b => v[a] < v[b]
                          /\ {v[a] : a \in 1..Len(v)} = Match(i)
                          /\ v # <<>>
                 /\ FirstLongWords(sentences[i + 1]) = {} => SentenceKey(i) \notin DOMAIN m

\* C8 witness: the findings were split off, the second sentence is mapped to
\* two source lines and the first sentence has no key
C8_Witness ==
    /\ Returned
    /\ Result.critical_findings # None
    /\ DOMAIN Result.source_mappings = {"sentence_1"}
    /\ Result.source_mappings["sentence_1"] = <<1, 2>>

====
